---------------------------- MODULE Spec2Model ----------------------------
(***************************************************************************)
(* Model of src/src/builder.js: the expression tree (Condition,            *)
(* BetweenCondition, Group), its serialization, and the fluent Builder.    *)
(*                                                                         *)
(* A JavaScript string is a sequence of lexemes: punctuation is one lexeme *)
(* per character, a run of letters or digits that the program never looks  *)
(* into is one lexeme.  startsWith, endsWith and slice therefore act on    *)
(* the first and last lexeme exactly as the code acts on the first and     *)
(* last character.  Field names are identifiers (they neither start with   *)
(* "(" nor contain blanks).                                                *)
(*                                                                         *)
(* Objects live in a heap: heap[g] is the Group object with reference g,   *)
(* root[b] is the reference held in the field `root` of Builder b.  Two    *)
(* holders of the same reference see each other's writes, as in the code.  *)
(***************************************************************************)
EXTENDS Integers, Sequences, FiniteSets

VARIABLES
    heap,   \* heap[g]: the Group object g, [logicOperator, nodes]
    root,   \* root[b]: Builder b's field `root`, a Group reference
    stack,  \* the group() calls whose callback is running, innermost last
    ret     \* the value returned by the call that completed last

vars == <<heap, root, stack, ret>>

-----------------------------------------------------------------------------
(* Bounds of the exploration.                                              *)

\* Spec: sub-builders (nested Group objects) and leaf nodes created over a run.
MaxGroups == 1
MaxLeaves == 3
\* SpecNest: the same, for runs that nest or repeat groups.
MaxNestGroups == 2
MaxNestLeaves == 2
\* SpecLeaf: leaf nodes created over a run.
MaxLeafCalls == 2

-----------------------------------------------------------------------------
(* Ops, builder.js lines 4-19.                                             *)

EQUALS         == <<":">>
STRICT_EQUALS  == <<":", "=">>
GT             == <<":", ">">>
GTE            == <<":", ">", "=">>
LT             == <<":", "<">>
LTE            == <<":", "<", "=">>
BETWEEN        == <<":", "[">>
STRICT_BETWEEN == <<":", "{">>

AND     == <<"AND">>
OR      == <<"OR">>
NOT     == <<"NOT">>
OR_NOT  == <<"OR", " ", "NOT">>
AND_NOT == <<"AND", " ", "NOT">>

\* The comparison tokens of Ops, and the connectors a Group is built with
\* (group's documented 'AND'|'OR' and the two NOT forms of its shortcuts).
CmpOps   == {EQUALS, STRICT_EQUALS, GT, GTE, LT, LTE, BETWEEN, STRICT_BETWEEN}
LogicOps == {AND, OR, AND_NOT, OR_NOT}

-----------------------------------------------------------------------------
(* JavaScript values: typeof is the field t.                               *)

Str(chars) == [t |-> "string",  s |-> chars, n |-> 0]
Num(k)     == [t |-> "number",  s |-> <<>>,  n |-> k]
Bool(k)    == [t |-> "boolean", s |-> <<>>,  n |-> k]   \* 1 is true, 0 is false

typeof(value) == value.t

Digit(d) == CASE d = 0 -> "0" [] d = 1 -> "1" [] d = 2 -> "2" [] d = 3 -> "3"
              [] d = 4 -> "4" [] d = 5 -> "5" [] d = 6 -> "6" [] d = 7 -> "7"
              [] d = 8 -> "8" [] d = 9 -> "9"

RECURSIVE NumberToString(_)
\* The decimal digits of a non-negative integer, most significant first.
NumberToString(k) ==
    IF k < 10 THEN <<Digit(k)>>
    ELSE NumberToString(k \div 10) \o <<Digit(k % 10)>>

\* The conversion a template literal `${value}` applies to a value.
TemplateString(value) ==
    CASE typeof(value) = "string"  -> value.s
      [] typeof(value) = "number"  -> NumberToString(value.n)
      [] typeof(value) = "boolean" -> IF value.n = 1 THEN <<"true">> ELSE <<"false">>

startsWith(str, ch) == Len(str) > 0 /\ str[1] = ch
endsWith(str, ch)   == Len(str) > 0 /\ str[Len(str)] = ch
\* str.slice(1, -1)
slice_1_m1(str)     == SubSeq(str, 2, Len(str) - 1)

-----------------------------------------------------------------------------
(* Nodes.  A Group is a heap object, held by reference.                    *)

Condition(field, operator, value) ==
    [kind |-> "Condition", field |-> field, operator |-> operator, value |-> value]

BetweenCondition(field, operator, fromValue, toValue) ==
    [kind |-> "BetweenCondition", field |-> field, operator |-> operator,
     fromValue |-> fromValue, toValue |-> toValue]

GroupRef(g) == [kind |-> "Group", ref |-> g]

\* new Group(logicOperator)
Group(logicOperator) == [logicOperator |-> logicOperator, nodes |-> <<>>]

\* Group.add on the object g of heap h: the heap afterwards.
add(h, g, node) == [h EXCEPT ![g].nodes = Append(@, node)]

-----------------------------------------------------------------------------
(* Rendering.                                                              *)

\* Variant: the check for a leading " is left out.
Condition_formatValue_AlwaysQuotes(value) ==
    IF typeof(value) = "string"
    THEN Str(<<"\"">> \o value.s \o <<"\"">>)
    ELSE value

Condition_formatValue(value) ==
    IF typeof(value) = "string"
    THEN IF startsWith(value.s, "\"") THEN value
         ELSE Str(<<"\"">> \o value.s \o <<"\"">>)
    ELSE value

Condition_toString(c) ==
    <<c.field>> \o c.operator \o TemplateString(Condition_formatValue(c.value))

BetweenCondition_formatValue(value) ==
    IF typeof(value) = "string"
    THEN IF startsWith(value.s, "\"") THEN value
         ELSE Str(<<"\"">> \o value.s \o <<"\"">>)
    ELSE value

\* Variant: the closing bracket does not look at the operator.
BetweenCondition_toString_SquareClose(c) ==
    <<c.field>> \o c.operator
      \o TemplateString(BetweenCondition_formatValue(c.fromValue))
      \o <<" ", "TO", " ">>
      \o TemplateString(BetweenCondition_formatValue(c.toValue))
      \o <<"]">>

BetweenCondition_toString(c) ==
    LET endOperator == IF c.operator = STRICT_BETWEEN THEN <<"}">> ELSE <<"]">>
    IN  <<c.field>> \o c.operator
          \o TemplateString(BetweenCondition_formatValue(c.fromValue))
          \o <<" ", "TO", " ">>
          \o TemplateString(BetweenCondition_formatValue(c.toValue))
          \o endOperator

RECURSIVE join(_, _)
\* Array.prototype.join: the parts in order, sep between neighbours.
join(parts, sep) ==
    IF Len(parts) = 0 THEN <<>>
    ELSE IF Len(parts) = 1 THEN parts[1]
    ELSE parts[1] \o sep \o join(Tail(parts), sep)

RECURSIVE Node_toString(_, _)

\* Variant: the parentheses are added from one child on.
Group_toString_WrapsSingle(h, g) ==
    IF Len(h[g].nodes) = 0 THEN <<>>
    ELSE LET parts  == [i \in 1..Len(h[g].nodes) |-> Node_toString(h, h[g].nodes[i])]
             joined == join(parts, <<" ">> \o h[g].logicOperator \o <<" ">>)
         IN  <<"(">> \o joined \o <<")">>

Group_toString(h, g) ==
    IF Len(h[g].nodes) = 0 THEN <<>>
    ELSE LET parts  == [i \in 1..Len(h[g].nodes) |-> Node_toString(h, h[g].nodes[i])]
             joined == join(parts, <<" ">> \o h[g].logicOperator \o <<" ">>)
         IN  IF Len(h[g].nodes) > 1 THEN <<"(">> \o joined \o <<")">> ELSE joined

\* n.toString(), dispatched on the class of n.
Node_toString(h, n) ==
    CASE n.kind = "Condition"        -> Condition_toString(n)
      [] n.kind = "BetweenCondition" -> BetweenCondition_toString(n)
      [] n.kind = "Group"            -> Group_toString(h, n.ref)

\* Variant: the first and last character are dropped whatever they are.
build_StripsAlways(h, g) == slice_1_m1(Group_toString(h, g))

\* Variant: the cosmetic cleanup is left out.
build_NoStrip(h, g) == Group_toString(h, g)

\* The string Builder.build computes from the Group g.
build(h, g) ==
    LET str == Group_toString(h, g)
    IN  IF startsWith(str, "(") /\ endsWith(str, ")") THEN slice_1_m1(str) ELSE str

-----------------------------------------------------------------------------
(* State.                                                                  *)

Builders == 1..Len(root)

RetThis(b)       == [kind |-> "builder", b |-> b, str |-> <<>>]
RetString(b, s)  == [kind |-> "string",  b |-> b, str |-> s]

\* new Builder(): Builder 1 with root = new Group(Ops.AND).
Init ==
    /\ heap  = <<Group(AND)>>
    /\ root  = <<1>>
    /\ stack = <<>>
    /\ ret   = RetThis(1)

-----------------------------------------------------------------------------
(* Builder methods, on the receiver b.                                     *)

where(b, field, operator, value) ==
    /\ heap' = add(heap, root[b], Condition(field, operator, value))
    /\ ret'  = RetThis(b)
    /\ UNCHANGED <<root, stack>>

is(b, field, value) == where(b, field, STRICT_EQUALS, value)

\* Variant: booleans are not sent to is().
matches_NumberOnly(b, field, value) ==
    IF typeof(value) = "number"
    THEN is(b, field, value)
    ELSE where(b, field, EQUALS, value)

matches(b, field, value) ==
    IF typeof(value) = "number" \/ typeof(value) = "boolean"
    THEN is(b, field, value)
    ELSE where(b, field, EQUALS, value)

between(b, field, fromValue, toValue) ==
    /\ heap' = add(heap, root[b], BetweenCondition(field, BETWEEN, fromValue, toValue))
    /\ ret'  = RetThis(b)
    /\ UNCHANGED <<root, stack>>

strictBetween(b, field, fromValue, toValue) ==
    /\ heap' = add(heap, root[b], BetweenCondition(field, STRICT_BETWEEN, fromValue, toValue))
    /\ ret'  = RetThis(b)
    /\ UNCHANGED <<root, stack>>

\* group(logic, callback) up to the point where the callback is entered: the
\* sub-builder is created and its root set to a new Group(logic).  (The Group
\* its constructor made is dropped at once and never reachable.)
group(b, logic) ==
    /\ heap'  = Append(heap, Group(logic))
    /\ root'  = Append(root, Len(heap) + 1)
    /\ stack' = Append(stack, [this |-> b, subBuilder |-> Len(root) + 1])
    /\ UNCHANGED ret

and(b)    == group(b, AND)
andNot(b) == group(b, AND_NOT)
or(b)     == group(b, OR)
orNot(b)  == group(b, OR_NOT)

\* The innermost callback returns: group() adds subBuilder.root to this.root
\* and returns this.
groupReturn ==
    /\ Len(stack) > 0
    /\ LET frame == stack[Len(stack)]
       IN  /\ heap' = add(heap, root[frame.this], GroupRef(root[frame.subBuilder]))
           /\ ret'  = RetThis(frame.this)
    /\ stack' = SubSeq(stack, 1, Len(stack) - 1)
    /\ UNCHANGED root

\* Variant: rendering empties the root it renders.
Build_Destructive(b) ==
    /\ ret'  = RetString(b, build(heap, root[b]))
    /\ heap' = [heap EXCEPT ![root[b]].nodes = <<>>]
    /\ UNCHANGED <<root, stack>>

\* build() on the receiver b.
Build(b) ==
    /\ ret' = RetString(b, build(heap, root[b]))
    /\ UNCHANGED <<heap, root, stack>>

-----------------------------------------------------------------------------
(* The callers.  Every builder ever created may be called at any time: a   *)
(* callback can keep the sub-builder it was handed, and can reach the      *)
(* builders of the enclosing scopes.                                       *)

RECURSIVE CountLeaves(_)
CountLeaves(nodes) ==
    IF Len(nodes) = 0 THEN 0
    ELSE (IF nodes[1].kind = "Group" THEN 0 ELSE 1) + CountLeaves(Tail(nodes))

RECURSIVE LeavesUpTo(_, _)
\* Leaf nodes held by the Group objects 1..g of heap h.
LeavesUpTo(h, g) ==
    IF g = 0 THEN 0 ELSE CountLeaves(h[g].nodes) + LeavesUpTo(h, g - 1)

Leaves == LeavesUpTo(heap, Len(heap))

\* Arguments of the calls explored by Spec and SpecNest.
Fields == {"role"}
Values == {Str(<<"admin">>), Str(<<"editor">>)}

\* Calls that build trees: where and matches add the leaves (is, between and
\* strictBetween add theirs through the same Group.add and are explored by
\* SpecLeaf), group and its four shortcuts nest.
NextOf(maxGroups, maxLeaves) ==
    \/ \E b \in Builders, f \in Fields, v \in Values :
          Leaves < maxLeaves /\ where(b, f, EQUALS, v)
    \/ \E b \in Builders, f \in Fields, v \in Values :
          Leaves < maxLeaves /\ matches(b, f, v)
    \/ \E b \in Builders, logic \in LogicOps :
          Len(root) <= maxGroups /\ group(b, logic)
    \/ \E b \in Builders : Len(root) <= maxGroups /\ and(b)
    \/ \E b \in Builders : Len(root) <= maxGroups /\ andNot(b)
    \/ \E b \in Builders : Len(root) <= maxGroups /\ or(b)
    \/ \E b \in Builders : Len(root) <= maxGroups /\ orNot(b)
    \/ groupReturn
    \/ \E b \in Builders : Build(b)

Next == NextOf(MaxGroups, MaxLeaves)

Spec == Init /\ [][Next]_vars

NextNest == NextOf(MaxNestGroups, MaxNestLeaves)

SpecNest == Init /\ [][NextNest]_vars

\* Arguments of the calls explored by SpecLeaf: a plain string, a string the
\* caller quoted, a number of two digits and a boolean.
LeafFields == {"amount"}
LeafValues == {Str(<<"active">>), Str(<<"\"", "MyCompany", "\"">>), Num(10), Bool(1)}

\* Calls on the one top-level builder that add leaves, with every comparison
\* token and every type of value.
NextLeaf ==
    \/ \E f \in LeafFields, op \in CmpOps, v \in LeafValues :
          Leaves < MaxLeafCalls /\ where(1, f, op, v)
    \/ \E f \in LeafFields, v \in LeafValues :
          Leaves < MaxLeafCalls /\ matches(1, f, v)
    \/ \E f \in LeafFields, v \in LeafValues :
          Leaves < MaxLeafCalls /\ is(1, f, v)
    \/ \E f \in LeafFields, a \in LeafValues, z \in LeafValues :
          Leaves < MaxLeafCalls /\ between(1, f, a, z)
    \/ \E f \in LeafFields, a \in LeafValues, z \in LeafValues :
          Leaves < MaxLeafCalls /\ strictBetween(1, f, a, z)
    \/ Build(1)

SpecLeaf == Init /\ [][NextLeaf]_vars

-----------------------------------------------------------------------------
(* Vocabulary of the properties.                                           *)

\* sub occurs in str as a run of neighbouring lexemes.
Occurs(sub, str) ==
    \E i \in 1..(Len(str) - Len(sub) + 1) : SubSeq(str, i, i + Len(sub) - 1) = sub

RECURSIVE Depth(_, _)
\* Open parentheses left unclosed after the first k lexemes of str.
Depth(str, k) ==
    IF k = 0 THEN 0
    ELSE Depth(str, k - 1)
           + (IF str[k] = "(" THEN 1 ELSE IF str[k] = ")" THEN -1 ELSE 0)

BalancedParens(str) ==
    /\ \A k \in 1..Len(str) : Depth(str, k) >= 0
    /\ Depth(str, Len(str)) = 0

\* A logic operator starts at lexeme k: AND or OR, NOT optionally following.
LogicAt(str, k) == str[k] \in {"AND", "OR"}
LogicEnd(str, k) ==
    IF k + 2 <= Len(str) /\ str[k + 1] = " " /\ str[k + 2] = "NOT" THEN k + 2 ELSE k

\* Every logic operator stands between two blanks with a Term on each side:
\* the lexeme before the left blank ends a Term, the one after the right
\* blank starts one.
TermsAroundLogic(str) ==
    \A k \in 1..Len(str) :
        LogicAt(str, k) =>
            LET e == LogicEnd(str, k)
            IN  /\ k >= 3
                /\ str[k - 1] = " "
                /\ str[k - 2] \notin {" ", "("}
                /\ e + 2 <= Len(str)
                /\ str[e + 1] = " "
                /\ str[e + 2] \notin {" ", ")"}

\* Every range opener :[ or :{ is closed by its own bracket before the next
\* closing bracket of either kind.
RangesClosed(str) ==
    \A k \in 1..(Len(str) - 1) :
        (str[k] = ":" /\ str[k + 1] \in {"[", "{"}) =>
            \E c \in (k + 2)..Len(str) :
                /\ str[c] = (IF str[k + 1] = "[" THEN "]" ELSE "}")
                /\ \A m \in (k + 2)..(c - 1) : str[m] \notin {"]", "}"}

\* The output grammar: "" or Terms joined by " LogicOp ".
WellFormed(str) ==
    \/ str = <<>>
    \/ BalancedParens(str) /\ TermsAroundLogic(str) /\ RangesClosed(str)

RECURSIVE HasCondition(_, _)
\* A Condition or BetweenCondition lies in the tree under Group g.
HasCondition(h, g) ==
    \E i \in 1..Len(h[g].nodes) :
        IF h[g].nodes[i].kind = "Group"
        THEN HasCondition(h, h[g].nodes[i].ref)
        ELSE TRUE

RECURSIVE Under(_, _)
\* The Group objects of the tree under g, g included.
Under(h, g) ==
    {g} \cup UNION { Under(h, h[g].nodes[i].ref) :
                       i \in {k \in 1..Len(h[g].nodes) : h[g].nodes[k].kind = "Group"} }

RECURSIVE Wrapping(_, _)
\* The Group whose parentheses wrap the whole text of g: g itself when it
\* has several children, else the one its only child leads to; 0 if none.
Wrapping(h, g) ==
    IF Len(h[g].nodes) > 1 THEN g
    ELSE IF Len(h[g].nodes) = 1 /\ h[g].nodes[1].kind = "Group"
         THEN Wrapping(h, h[g].nodes[1].ref)
         ELSE 0

\* Builder b's group() has returned: its root was absorbed by a parent.
Absorbed(b) ==
    /\ b \in Builders /\ b # 1
    /\ \A k \in 1..Len(stack) : stack[k].subBuilder # b

\* The builders whose root holds the root of b as a child.
Parents(b) ==
    {p \in Builders : \E i \in 1..Len(heap[root[p]].nodes) :
                         heap[root[p]].nodes[i] = GroupRef(root[b])}

\* Some leaf-adding call on builder b happens in this step.
LeafCallOn(b) ==
    \E f \in Fields, v \in Values : where(b, f, EQUALS, v) \/ matches(b, f, v)

-----------------------------------------------------------------------------
(* Properties.                                                             *)

\* C1: whatever calls were made, build() returns a well-formed query: ""
\* or Terms joined by " LogicOp ", ranges closed, parentheses balanced, no
\* empty Term beside a logic operator.
C1_WellFormed ==
    ret.kind = "string" => WellFormed(ret.str)

\* C2: once group() has returned, no call on the sub-builder it handed to
\* the callback changes what the parent's build() returns.
C2_ExclusiveOwnership ==
    [][\A b \in Builders : \A p \in Parents(b) :
          (Absorbed(b) /\ LeafCallOn(b))
              => build(heap', root'[p]) = build(heap, root[p])]_vars

\* C3: build() leaves every Group unchanged, returns the rendering of the
\* tree as it still is, and returns the same string when called again with
\* no builder call in between.  (A step that yields a string and enters no
\* group() is a build() on the builder named in ret.)
C3_BuildNonDestructive ==
    [][\A b \in Builders :
          (ret'.kind = "string" /\ ret'.b = b /\ stack' = stack)
              => /\ heap' = heap
                 /\ root' = root
                 /\ ret'.str = build(heap', root'[b])
                 /\ (ret.kind = "string" /\ ret.b = b) => ret'.str = ret.str]_vars

C3_Witness ==
    /\ ret.kind = "string"
    /\ ret.b = 1
    /\ Len(heap[1].nodes) >= 2
    /\ ret.str # <<>>

\* C4: a builder whose tree holds no Condition and no BetweenCondition,
\* at the root or in any nested group, builds to "".
C4_EmptyBuild ==
    (ret.kind = "string" /\ ~HasCondition(heap, root[ret.b])) => ret.str = <<>>

\* C5: build() returns the root's text less its first and last character
\* when that text starts with ( and ends with ), and the text itself
\* otherwise; what is dropped is the pair wrapping the whole text, so every
\* other group of several children keeps its parentheses in the result.
C5_StripsOneOuterLayer ==
    ret.kind = "string" =>
        LET text == Group_toString(heap, root[ret.b])
        IN  /\ (startsWith(text, "(") /\ endsWith(text, ")"))
                  => /\ Len(ret.str) = Len(text) - 2
                     /\ <<"(">> \o ret.str \o <<")">> = text
            /\ ~(startsWith(text, "(") /\ endsWith(text, ")"))
                  => ret.str = text
            /\ BalancedParens(ret.str)
            /\ \A g \in Under(heap, root[ret.b]) :
                  (Len(heap[g].nodes) > 1 /\ g # Wrapping(heap, root[ret.b]))
                      => /\ startsWith(Group_toString(heap, g), "(")
                         /\ Occurs(Group_toString(heap, g), ret.str)

\* a AND (b OR c): the root's pair is dropped, the nested group's is kept.
C5_Witness ==
    /\ ret.kind = "string"
    /\ ret.b = 1
    /\ Len(heap[1].nodes) = 2
    /\ heap[1].nodes[1].kind = "Condition"
    /\ heap[1].nodes[2] = GroupRef(2)
    /\ Len(heap[2].nodes) = 2
    /\ ret.str[1] = "role"
    /\ Occurs(<<" ", "AND", " ", "(", "role">>, ret.str)

\* The tree of or(qb => { qb.matches('role','admin'); qb.matches('role','editor') })
\* on a fresh builder.
OrOfTwoMatches ==
    /\ heap[1].nodes = <<GroupRef(2)>>
    /\ heap[2] = [logicOperator |-> OR,
                  nodes |-> <<Condition("role", EQUALS, Str(<<"admin">>)),
                              Condition("role", EQUALS, Str(<<"editor">>))>>]

\* C6 as stated: that builder builds to (role:"admin" OR role:"editor"),
\* parentheses included.
C6_KeepsParens ==
    (ret.kind = "string" /\ ret.b = 1 /\ OrOfTwoMatches)
        => ret.str = <<"(", "role", ":", "\"", "admin", "\"", " ", "OR", " ",
                       "role", ":", "\"", "editor", "\"", ")">>

\* C6 amended: that builder builds to role:"admin" OR role:"editor"; the
\* group's parentheses wrap the whole text and build() drops them.
C6_DropsParens ==
    (ret.kind = "string" /\ ret.b = 1 /\ OrOfTwoMatches)
        => ret.str = <<"role", ":", "\"", "admin", "\"", " ", "OR", " ",
                       "role", ":", "\"", "editor", "\"">>

C6_Witness ==
    ret.kind = "string" /\ ret.b = 1 /\ OrOfTwoMatches

RECURSIVE SumLen(_, _)
\* Total length of the texts of the first k children.
SumLen(texts, k) == IF k = 0 THEN 0 ELSE SumLen(texts, k - 1) + Len(texts[k])

\* C7: a Group of no child renders to ""; of one child, to that child's
\* text and nothing more; of several, to ( the children's texts in the
\* order they were appended, " logicOperator " between neighbours, then ).
C7_GroupRendering ==
    \A g \in 1..Len(heap) :
        LET nodes == heap[g].nodes
            text  == Group_toString(heap, g)
            child == [i \in 1..Len(nodes) |-> Node_toString(heap, nodes[i])]
            sep   == <<" ">> \o heap[g].logicOperator \o <<" ">>
            at(i) == 1 + SumLen(child, i - 1) + (i - 1) * Len(sep)
        IN  /\ Len(nodes) = 0 => text = <<>>
            /\ Len(nodes) = 1 => text = child[1]
            /\ Len(nodes) > 1 =>
                 /\ Len(text) = 2 + SumLen(child, Len(nodes)) + (Len(nodes) - 1) * Len(sep)
                 /\ text[1] = "("
                 /\ text[Len(text)] = ")"
                 /\ \A i \in 1..Len(nodes) :
                       SubSeq(text, at(i) + 1, at(i) + Len(child[i])) = child[i]
                 /\ \A i \in 2..Len(nodes) :
                       SubSeq(text, at(i) - Len(sep) + 1, at(i)) = sep

\* A root of two different children, the second a nested group of one child.
C7_Witness ==
    /\ Len(heap) = 2
    /\ Len(heap[1].nodes) = 3
    /\ heap[1].nodes[1] = Condition("role", EQUALS, Str(<<"editor">>))
    /\ heap[1].nodes[2] = GroupRef(2)
    /\ heap[1].nodes[3] = Condition("role", EQUALS, Str(<<"admin">>))
    /\ Len(heap[2].nodes) = 1
    /\ heap[2].logicOperator = OR_NOT

\* The node the call that completed last appended to the top-level root.
LastNode == heap[1].nodes[Len(heap[1].nodes)]

\* C8: matches(f, v) appends what is(f, v) appends, operator :=, when v is
\* a number or a boolean, and what where(f, EQUALS, v) appends, operator :,
\* when v is a string; is(f, v) uses := whatever the type of v.
C8_TypeDrivenDispatch ==
    [][\A f \in LeafFields, v \in LeafValues :
          /\ (matches(1, f, v) /\ typeof(v) \in {"number", "boolean"})
                => /\ heap'[1].nodes = Append(heap[1].nodes, Condition(f, STRICT_EQUALS, v))
                   /\ is(1, f, v)
          /\ (matches(1, f, v) /\ typeof(v) = "string")
                => /\ heap'[1].nodes = Append(heap[1].nodes, Condition(f, EQUALS, v))
                   /\ where(1, f, EQUALS, v)
          /\ is(1, f, v)
                => heap'[1].nodes = Append(heap[1].nodes, Condition(f, STRICT_EQUALS, v))]_vars

\* What matches('amount', true) leaves behind.
C8_Witness ==
    /\ ret = RetThis(1)
    /\ Len(heap[1].nodes) = 2
    /\ LastNode = Condition("amount", STRICT_EQUALS, Bool(1))
    /\ heap[1].nodes[1] = Condition("amount", EQUALS, Str(<<"active">>))

\* The values a node holds.
ValuesOf(node) ==
    IF node.kind = "Condition" THEN {node.value} ELSE {node.fromValue, node.toValue}

C10_RangeBrackets ==
    [][\A f \in LeafFields, a \in LeafValues, z \in LeafValues :
          LET fa == TemplateString(BetweenCondition_formatValue(a))
              fz == TemplateString(BetweenCondition_formatValue(z))
              text == Node_toString(heap', heap'[1].nodes[Len(heap'[1].nodes)])
          IN  /\ between(1, f, a, z)
                    => text = <<f, ":", "[">> \o fa \o <<" ", "TO", " ">> \o fz \o <<"]">>
              /\ strictBetween(1, f, a, z)
                    => text = <<f, ":", "{">> \o fa \o <<" ", "TO", " ">> \o fz \o <<"}">>]_vars

\* What strictBetween('amount', 'active', 10) leaves behind, built.
C10_Witness ==
    /\ ret = RetString(1, <<"amount", ":", "{", "\"", "active", "\"", " ", "TO", " ",
                            "1", "0", "}">>)
    /\ heap[1].nodes = <<BetweenCondition("amount", STRICT_BETWEEN, Str(<<"active">>), Num(10))>>

=============================================================================
